---- MODULE Spec2Model ----
(***************************************************************************)
(* Fixed-window rate limiter of services/NetRecon/rate_limiter.py.         *)
(*                                                                         *)
(* Threads call check_rate_limit(identifier) concurrently.  Every access   *)
(* to the module global _redis_client and every round trip to the store    *)
(* is one step of its own; the statements between two such accesses only   *)
(* touch locals and are folded into the step before them.  The store       *)
(* (Redis) is modelled by the three commands the code issues: INCR,        *)
(* EXPIRE, TTL, plus PING, and by the passing of time, which counts the    *)
(* time-to-live of every key down and deletes the key when it has run out. *)
(* The store can become unreachable and reachable again at any moment; a   *)
(* command issued while it is unreachable raises in the client.            *)
(* Two threads share the process; the history variables record, per call   *)
(* and per counter record, what the properties below speak about.          *)
(***************************************************************************)
EXTENDS Integers, Sequences, FiniteSets, TLC

\* ---- bounds of the model ----
MaxCalls == 3        \* calls of check_rate_limit in one behaviour
MaxLimit == 2        \* settings.rate_limit_requests_per_window is 1..MaxLimit
MaxWindow == 2       \* settings.rate_limit_window_seconds

\* the threads that call check_rate_limit, and the identifiers they may pass
Threads == {1, 2}
Ids == {"a", "b"}

\* line 68: key = f"netrecon:rl:{identifier}"
KeyNoIdentifier(identifier) == "netrecon:rl:"
Key(identifier) == "netrecon:rl:" \o identifier
\* the keys the store can be asked about
Keys == {Key(id) : id \in Ids}

\* ---- values of the program ----
None == -99          \* Python None in an Optional[int] field
NoClient == 0        \* _redis_client = None
NoKeyTtl == -2       \* TTL of a key that does not exist
NoExpiryTtl == -1    \* TTL of a key without expiry
\* no call of the thread has returned yet, or its call is in flight
NoResult == [allowed |-> FALSE, retry_after |-> 0, remaining |-> None]

VARIABLES
  \* config.settings, fixed for the process lifetime
  enabled, urlOk, limit, window,
  callers,     \* per thread: the identifiers it passes to check_rate_limit
  \* the process
  client,      \* the module global _redis_client: NoClient or a handle
  pc,          \* per thread: "idle" or the line its call is about to execute
  ident,       \* per thread: the identifier argument of its call
  cl,          \* per thread: the local `client` of check_rate_limit
  current,     \* per thread: the local `current`
  result,      \* per thread: the RateLimitResult its last call returned
  \* the store
  storeUp,     \* the store is reachable
  handles,     \* number of Redis objects created so far (handle h is 1..handles)
  probed,      \* per handle: a ping through it has succeeded
  value,       \* per key: the counter, 0 when the key does not exist
  ttl,         \* per key: what TTL reports for the key
  \* history
  calls,       \* number of check_rate_limit calls started
  connFailed,  \* some connection attempt has failed (line 39 was reached)
  ops,         \* per thread: the store operations of its call, in order
  hist,        \* per thread: what happened during its call
  win,         \* per identifier: what happened to the current counter record
  span         \* the allowed calls of the last window + 1 seconds, while
               \* limiting is enabled and no operation has failed

settings == <<enabled, urlOk, limit, window, callers>>
process == <<client, pc, ident, cl, current, result>>
store == <<storeUp, handles, probed, value, ttl>>
history == <<calls, connFailed, ops, hist, win, span>>
vars == <<settings, process, store, history>>

Max(a, b) == IF a >= b THEN a ELSE b
Min(a, b) == IF a <= b THEN a ELSE b

\* ---- the pure parts of check_rate_limit ----

\* RateLimitResult(allowed, retry_after, remaining)
RateLimitResult(a, ra, rem) == [allowed |-> a, retry_after |-> ra, remaining |-> rem]

\* line 58: rate limiting disabled => always allow
DisabledResult == RateLimitResult(TRUE, None, None)

\* line 56: if not settings.rate_limit_enabled
DisabledNever(en) == FALSE
Disabled(en) == ~en

\* line 63: Redis not available => fail open
UnavailableDeny == RateLimitResult(FALSE, None, None)
UnavailableResult == RateLimitResult(TRUE, None, None)

\* line 91: on Redis error we fail open
ErrorEvaluated(cur, lim) == RateLimitResult(TRUE, None, Max(lim - cur, 0))
ErrorDeny(cur, lim) == RateLimitResult(FALSE, None, 0)
ErrorResult(cur, lim) == RateLimitResult(TRUE, None, None)

\* line 30: if _redis_client is not None
IsCached(c) == c # NoClient

\* line 41: _redis_client = None
ResetLatched(c) == c
ResetClient(c) == NoClient

\* line 74: if current == 1
FirstHitAlways(cur) == TRUE
FirstHit(cur) == cur = 1

\* line 78: if current > limit
OverLimitOffByOne(cur, lim) == cur >= lim
OverLimit(cur, lim) == cur > lim

\* line 81: retry_after = ttl if ttl is not None and ttl > 0 else window
RetryAfterNoFloor(t, w) == IF t # None /\ t >= 0 THEN t ELSE w
RetryAfterRaw(t, w) == t
RetryAfter(t, w) == IF t # None /\ t > 0 THEN t ELSE w

\* lines 82-83: the denial
DeniedNoRetry(t, w) == RateLimitResult(FALSE, None, 0)
DeniedResult(t, w) == RateLimitResult(FALSE, RetryAfter(t, w), 0)

\* lines 85-86: remaining = max(limit - current, 0)
AllowedOffByOne(cur, lim) == RateLimitResult(TRUE, None, Max(lim - cur + 1, 0))
AllowedResult(cur, lim) == RateLimitResult(TRUE, None, Max(lim - cur, 0))

\* ---- the store's commands ----

\* INCR key: the new value; a key that does not exist counts from 0
IncrTwice(v) == v + 2
IncrValue(v) == v + 1

\* the TTL of the key after INCR: a key INCR creates has no expiry
IncrTtl(v, t) == IF v = 0 THEN NoExpiryTtl ELSE t

\* EXPIRE key seconds: sets the time-to-live of an existing key
ExpireZero(v, t, w) == IF v > 0 THEN 0 ELSE t
ExpireTtl(v, t, w) == IF v > 0 THEN w ELSE t

\* one second passes: a key whose time-to-live has run out is deleted
Expires(v, t) == v > 0 /\ t = 0
TickTtl(v, t) == IF v > 0 /\ t > 0 THEN t - 1 ELSE IF Expires(v, t) THEN NoKeyTtl ELSE t
TickValue(v, t) == IF Expires(v, t) THEN 0 ELSE v

\* ---- history records ----
FreshHist == [afterFail |-> FALSE, cached |-> FALSE, stale |-> FALSE,
              inWin |-> FALSE, inSeq |-> FALSE, rank |-> 0]
FreshWin == [incrLog |-> <<>>, denied |-> 0, admitted |-> 0, clean |-> TRUE,
             nth |-> 0, seqOK |-> TRUE, age |-> 0]
Op(name, ok, ret) == [op |-> name, ok |-> ok, ret |-> ret]

\* no allowed call in any of the last w + 1 seconds
NoneAllowed(w) == [id \in Ids |-> [i \in 1..(w + 1) |-> 0]]

InFlight(t) == pc[t] # "idle"
\* the step makes the call of t return allowed
ReturnsAllowed(t) == pc'[t] = "idle" /\ result'[t].allowed
Busy(id, t) == \E u \in Threads \ {t} : InFlight(u) /\ ident[u] = id

Init ==
  /\ enabled \in BOOLEAN
  /\ urlOk \in BOOLEAN
  /\ limit \in 1..MaxLimit
  /\ window = MaxWindow
  /\ callers = [t \in Threads |-> {"a"}]
  /\ client = NoClient
  /\ pc = [t \in Threads |-> "idle"]
  /\ ident = [t \in Threads |-> "a"]
  /\ cl = [t \in Threads |-> NoClient]
  /\ current = [t \in Threads |-> None]
  /\ result = [t \in Threads |-> NoResult]
  /\ storeUp \in BOOLEAN
  /\ handles = 0
  /\ probed = [h \in 1..MaxCalls |-> FALSE]
  /\ value = [key \in Keys |-> 0]
  /\ ttl = [key \in Keys |-> NoKeyTtl]
  /\ calls = 0
  /\ connFailed = FALSE
  /\ ops = [t \in Threads |-> <<>>]
  /\ hist = [t \in Threads |-> FreshHist]
  /\ win = [id \in Ids |-> FreshWin]
  /\ span = [ok |-> enabled /\ urlOk /\ storeUp, allowed |-> NoneAllowed(window)]

\* the call of thread t returns r
Return(t, r) ==
  /\ result' = [result EXCEPT ![t] = r]
  /\ pc' = [pc EXCEPT ![t] = "idle"]

Goto(t, line) == pc' = [pc EXCEPT ![t] = line]

\* the step counts the call of t in the current second if it returns allowed
NoteAllowed(t) ==
  span' = IF span.ok /\ ReturnsAllowed(t)
            THEN [span EXCEPT !.allowed[ident[t]][1] = @ + 1]
            ELSE span

\* the call of t did not count: the calls of its identifier are no longer a
\* sequence of counted calls
NotCounted(t) ==
  /\ hist' = [hist EXCEPT ![t].inSeq = FALSE]
  /\ win' = [win EXCEPT ![ident[t]].seqOK = FALSE]

\* lines 45-58: check_rate_limit(identifier) is called
Start(t, id) ==
  /\ pc[t] = "idle"
  /\ calls < MaxCalls
  /\ calls' = calls + 1
  /\ ident' = [ident EXCEPT ![t] = id]
  /\ cl' = [cl EXCEPT ![t] = NoClient]
  /\ current' = [current EXCEPT ![t] = None]
  /\ ops' = [ops EXCEPT ![t] = <<>>]
  /\ LET h == [FreshHist EXCEPT !.afterFail = connFailed]
     IN IF Disabled(enabled)
          THEN /\ result' = [result EXCEPT ![t] = DisabledResult]
               /\ pc' = pc
               /\ hist' = [hist EXCEPT ![t] = h]
               /\ win' = win
          ELSE /\ result' = [result EXCEPT ![t] = NoResult]
               /\ Goto(t, "L30")
               /\ LET seq == win[id].seqOK /\ ~Busy(id, t)
                  IN /\ win' = [win EXCEPT ![id].nth = @ + 1, ![id].seqOK = seq]
                     /\ hist' = [u \in Threads |->
                          IF u = t
                            THEN [h EXCEPT !.inSeq = seq, !.rank = win[id].nth + 1]
                            ELSE IF InFlight(u) /\ ident[u] = id
                                   THEN [hist[u] EXCEPT !.inSeq = FALSE]
                                   ELSE hist[u]]
  /\ UNCHANGED <<settings, client, store, connFailed, span>>

\* line 30: if _redis_client is not None
GetCached(t) ==
  /\ pc[t] = "L30"
  /\ hist' = [hist EXCEPT ![t].cached = IsCached(client)]
  /\ IF IsCached(client) THEN Goto(t, "L31") ELSE Goto(t, "L34")
  /\ UNCHANGED <<settings, client, ident, cl, current, result, store, calls, connFailed,
                 ops, win, span>>

\* line 31: return _redis_client reads the global again; lines 60-63
ReturnCached(t) ==
  /\ pc[t] = "L31"
  /\ cl' = [cl EXCEPT ![t] = client]
  /\ IF client = NoClient
       THEN /\ Return(t, UnavailableResult)
            /\ NotCounted(t)
       ELSE /\ Goto(t, "L72")
            /\ UNCHANGED <<result, hist, win>>
  /\ UNCHANGED <<settings, client, ident, current, store, calls, connFailed, ops, span>>

\* line 34: _redis_client = redis.Redis.from_url(settings.redis_url); the
\* global is assigned before the ping. A malformed url raises.
FromUrl(t) ==
  /\ pc[t] = "L34"
  /\ ops' = [ops EXCEPT ![t] = Append(@, Op("from_url", urlOk, None))]
  /\ IF urlOk
       THEN /\ handles' = handles + 1
            /\ client' = handles + 1
            /\ Goto(t, "L36")
       ELSE /\ UNCHANGED <<handles, client>>
            /\ Goto(t, "L41")
  /\ UNCHANGED <<settings, ident, cl, current, result, storeUp, probed, value, ttl,
                 calls, connFailed, hist, win, span>>

\* line 36: _redis_client.ping() reads the global again; None has no ping
Ping(t) ==
  /\ pc[t] = "L36"
  /\ ops' = [ops EXCEPT ![t] = Append(@, Op("ping", client # NoClient /\ storeUp, None))]
  /\ IF client # NoClient /\ storeUp
       THEN /\ probed' = [probed EXCEPT ![client] = TRUE]
            /\ Goto(t, "L38")
       ELSE /\ probed' = probed
            /\ Goto(t, "L41")
  /\ UNCHANGED <<settings, client, ident, cl, current, result, storeUp, handles, value,
                 ttl, calls, connFailed, hist, win, span>>

\* line 38: return _redis_client reads the global a third time; lines 60-63
ReturnClient(t) ==
  /\ pc[t] = "L38"
  /\ cl' = [cl EXCEPT ![t] = client]
  /\ IF client = NoClient
       THEN /\ Return(t, UnavailableResult)
            /\ NotCounted(t)
       ELSE /\ Goto(t, "L72")
            /\ UNCHANGED <<result, hist, win>>
  /\ UNCHANGED <<settings, client, ident, current, store, calls, connFailed, ops, span>>

\* lines 39-42: the except branch of get_redis_client; lines 60-63
ConnectFailed(t) ==
  /\ pc[t] = "L41"
  /\ client' = ResetClient(client)
  /\ connFailed' = TRUE
  /\ cl' = [cl EXCEPT ![t] = NoClient]
  /\ Return(t, UnavailableResult)
  /\ NotCounted(t)
  /\ UNCHANGED <<settings, ident, current, store, calls, ops, span>>

\* lines 88-91: a store operation of the call of t raised
Failed(t, name) ==
  /\ ops' = [ops EXCEPT ![t] = Append(@, Op(name, FALSE, None))]
  /\ Return(t, ErrorResult(current[t], limit))

\* lines 72-86 after the increment returned cur: the next store operation of
\* the call, or its result
AfterIncr(t, cur) ==
  IF FirstHit(cur) THEN Goto(t, "L76") /\ result' = result
  ELSE IF OverLimit(cur, limit) THEN Goto(t, "L80") /\ result' = result
  ELSE Return(t, AllowedResult(cur, limit))

\* the record of id exists although the call that created it has returned
\* more than window seconds ago (win[id].age counts the seconds since then)
Stale(id) ==
  /\ value[Key(id)] > 0 /\ win[id].age > window
  /\ ~\E u \in Threads : pc[u] = "L76" /\ ident[u] = id

\* line 72: current = client.incr(key)
Incr(t) ==
  /\ pc[t] = "L72"
  /\ LET id == ident[t]
         key == Key(id)
         new == IncrValue(value[key])
     IN IF storeUp
          THEN /\ value' = [value EXCEPT ![key] = new]
               /\ ttl' = [ttl EXCEPT ![key] = IncrTtl(value[key], @)]
               /\ current' = [current EXCEPT ![t] = new]
               /\ ops' = [ops EXCEPT ![t] = Append(@, Op("incr", TRUE, new))]
               /\ hist' = [hist EXCEPT ![t].inWin = TRUE, ![t].stale = Stale(id)]
               /\ AfterIncr(t, new)
               /\ win' = [win EXCEPT ![id].incrLog = Append(@, new),
                                     ![id].age = IF value[key] = 0 THEN 0 ELSE @,
                                     ![id].admitted = IF ReturnsAllowed(t) THEN @ + 1 ELSE @]
          ELSE /\ UNCHANGED <<value, ttl, current>>
               /\ Failed(t, "incr")
               /\ hist' = [hist EXCEPT ![t].inSeq = FALSE]
               /\ win' = [win EXCEPT ![id].seqOK = FALSE, ![id].clean = FALSE]
  /\ NoteAllowed(t)
  /\ UNCHANGED <<settings, client, ident, cl, storeUp, handles, probed, calls, connFailed>>

\* line 76: client.expire(key, window)
Expire(t) ==
  /\ pc[t] = "L76"
  /\ LET id == ident[t]
         key == Key(id)
     IN IF storeUp
          THEN /\ ttl' = [ttl EXCEPT ![key] = ExpireTtl(value[key], @, window)]
               /\ ops' = [ops EXCEPT ![t] = Append(@, Op("expire", TRUE, None))]
               /\ IF OverLimit(current[t], limit)
                    THEN Goto(t, "L80") /\ result' = result
                    ELSE Return(t, AllowedResult(current[t], limit))
               /\ win' = [win EXCEPT ![id].age = 0,
                                     ![id].admitted = IF ReturnsAllowed(t) THEN @ + 1 ELSE @]
          ELSE /\ ttl' = ttl
               /\ Failed(t, "expire")
               /\ win' = [win EXCEPT ![id].clean = FALSE, ![id].age = 0,
                                     ![id].admitted = IF ReturnsAllowed(t) THEN @ + 1 ELSE @]
  /\ NoteAllowed(t)
  /\ UNCHANGED <<settings, client, ident, cl, current, storeUp, handles, probed, value,
                 calls, connFailed, hist>>

\* lines 80-83: ttl = client.ttl(key) and the denial
Ttl(t) ==
  /\ pc[t] = "L80"
  /\ LET id == ident[t]
         key == Key(id)
     IN IF storeUp
          THEN /\ ops' = [ops EXCEPT ![t] = Append(@, Op("ttl", TRUE, ttl[key]))]
               /\ Return(t, DeniedResult(ttl[key], window))
               /\ win' = [win EXCEPT ![id].denied = IF hist[t].inWin THEN @ + 1 ELSE @]
          ELSE /\ Failed(t, "ttl")
               /\ win' = [win EXCEPT
                    ![id].clean = IF hist[t].inWin THEN FALSE ELSE @,
                    ![id].admitted = IF hist[t].inWin /\ ReturnsAllowed(t) THEN @ + 1 ELSE @]
  /\ UNCHANGED <<settings, client, ident, cl, current, store, calls, connFailed, hist, span>>

\* ---- the environment ----

\* one second passes in the store
Tick ==
  /\ value' = [key \in Keys |-> TickValue(value[key], ttl[key])]
  /\ ttl' = [key \in Keys |-> TickTtl(value[key], ttl[key])]
  /\ win' = [id \in Ids |->
       IF Expires(value[Key(id)], ttl[Key(id)])
         THEN [FreshWin EXCEPT !.seqOK = ~\E t \in Threads : InFlight(t) /\ ident[t] = id]
         ELSE IF value[Key(id)] > 0
                THEN [win[id] EXCEPT !.age = Min(@ + 1, MaxWindow + 1)]
                ELSE win[id]]
  /\ hist' = [t \in Threads |->
       IF InFlight(t) /\ Expires(value[Key(ident[t])], ttl[Key(ident[t])])
         THEN [hist[t] EXCEPT !.inWin = FALSE, !.inSeq = FALSE]
         ELSE hist[t]]
  /\ span' = IF span.ok
              THEN [span EXCEPT !.allowed =
                      [id \in Ids |-> <<0>> \o SubSeq(@[id], 1, window)]]
              ELSE span
  /\ UNCHANGED <<settings, process, storeUp, handles, probed, calls, connFailed, ops>>

\* the store becomes unreachable
StoreDown ==
  /\ storeUp
  /\ storeUp' = FALSE
  /\ span' = [ok |-> FALSE, allowed |-> NoneAllowed(window)]
  /\ UNCHANGED <<settings, process, handles, probed, value, ttl, calls, connFailed, ops,
                 hist, win>>

\* the store becomes reachable again
StoreUp ==
  /\ ~storeUp
  /\ storeUp' = TRUE
  /\ UNCHANGED <<settings, process, handles, probed, value, ttl, history>>

Next ==
  \/ \E t \in Threads : \E id \in callers[t] : Start(t, id)
  \/ \E t \in Threads : GetCached(t)
  \/ \E t \in Threads : ReturnCached(t)
  \/ \E t \in Threads : FromUrl(t)
  \/ \E t \in Threads : Ping(t)
  \/ \E t \in Threads : ReturnClient(t)
  \/ \E t \in Threads : ConnectFailed(t)
  \/ \E t \in Threads : Incr(t)
  \/ \E t \in Threads : Expire(t)
  \/ \E t \in Threads : Ttl(t)
  \/ Tick
  \/ StoreDown
  \/ StoreUp

Spec == Init /\ [][Next]_vars

\* the same program, thread 1 serving identifier a while the other threads
\* serve identifier b
InitIso ==
  /\ enabled \in BOOLEAN
  /\ urlOk \in BOOLEAN
  /\ limit \in 1..MaxLimit
  /\ window = MaxWindow
  /\ callers = [t \in Threads |-> IF t = 1 THEN {"a"} ELSE {"b"}]
  /\ client = NoClient
  /\ pc = [t \in Threads |-> "idle"]
  /\ ident = [t \in Threads |-> "a"]
  /\ cl = [t \in Threads |-> NoClient]
  /\ current = [t \in Threads |-> None]
  /\ result = [t \in Threads |-> NoResult]
  /\ storeUp \in BOOLEAN
  /\ handles = 0
  /\ probed = [h \in 1..MaxCalls |-> FALSE]
  /\ value = [key \in Keys |-> 0]
  /\ ttl = [key \in Keys |-> NoKeyTtl]
  /\ calls = 0
  /\ connFailed = FALSE
  /\ ops = [t \in Threads |-> <<>>]
  /\ hist = [t \in Threads |-> FreshHist]
  /\ win = [id \in Ids |-> FreshWin]
  /\ span = [ok |-> enabled /\ urlOk /\ storeUp, allowed |-> NoneAllowed(window)]

SpecIso == InitIso /\ [][Next]_vars

\* ---- vocabulary of the properties ----

\* the Decision Result "allowed, no quota fields"
AllowNoQuota == [allowed |-> TRUE, retry_after |-> None, remaining |-> None]

\* the last call of t has returned
Finished(t) == pc[t] = "idle" /\ result[t] # NoResult

ConnectOps == {"from_url", "ping"}
StoreOps == {"incr", "expire", "ttl"}
OpNames(t) == [i \in 1..Len(ops[t]) |-> ops[t][i].op]
OpsOK(t) == \A i \in 1..Len(ops[t]) : ops[t][i].ok
SomeFailed(t, names) == \E i \in 1..Len(ops[t]) : ops[t][i].op \in names /\ ~ops[t][i].ok
\* the store operations of the call of t, without the connection attempt
StoreOpsOf(t) == SelectSeq(ops[t], LAMBDA o : o.op \in StoreOps)
LastOp(t) == IF ops[t] = <<>> THEN Op("none", TRUE, None) ELSE ops[t][Len(ops[t])]

\* C1: with the store healthy, the increments of the calls on one counter
\* record return 1, 2, ..., M, and of these M calls exactly max(0, M - limit)
\* are denied: those already returned plus those that only have the ttl read
\* left (every other call in flight has been counted as allowed).
C1_ConcurrentCount ==
  \A id \in Ids : win[id].clean =>
    LET M == Len(win[id].incrLog)
        atTtl == {t \in Threads : pc[t] = "L80" /\ ident[t] = id /\ hist[t].inWin}
    IN /\ win[id].incrLog = [i \in 1..M |-> i]
       /\ win[id].denied + Cardinality(atTtl) = Max(0, M - limit)
       /\ (atTtl = {} => win[id].denied = Max(0, M - limit))

\* two calls on one record overlap, one holds the first increment and still
\* has to set the expiry, and another one has already been denied
C1_Witness ==
  \E t \in Threads, u \in Threads :
    /\ t # u /\ ident[t] = ident[u]
    /\ pc[t] = "L76" /\ hist[t].inWin
    /\ Finished(u) /\ ~result[u].allowed /\ hist[u].inWin
    /\ win[ident[t]].clean /\ win[ident[t]].denied = 1

\* C2: the k-th of N <= limit sequential calls of one window, every store
\* operation of which succeeds, returns allowed, no retry_after, and
\* remaining = limit - k.
C2_SequentialAllowed ==
  \A t \in Threads :
    (Finished(t) /\ hist[t].inSeq /\ hist[t].rank <= limit /\ OpsOK(t)) =>
      /\ result[t] = [allowed |-> TRUE, retry_after |-> None,
                      remaining |-> limit - hist[t].rank]
      /\ current[t] = hist[t].rank

C2_Witness ==
  \E t \in Threads :
    /\ Finished(t) /\ hist[t].inSeq /\ hist[t].rank = limit /\ OpsOK(t)
    /\ limit >= 2 /\ result[t].remaining = 0

\* C3: the (limit+1)-th sequential call of an unexpired window is denied with
\* remaining 0 and retry_after the ttl the store reported, or the window
\* length when the store reported no ttl or a non-positive one.
C3_NextDenied ==
  \A t \in Threads :
    (Finished(t) /\ hist[t].inSeq /\ hist[t].rank = limit + 1 /\ OpsOK(t)) =>
      /\ LastOp(t).op = "ttl"
      /\ LastOp(t).ret # NoKeyTtl
      /\ result[t] = [allowed |-> FALSE,
                      retry_after |-> IF LastOp(t).ret > 0 THEN LastOp(t).ret ELSE window,
                      remaining |-> 0]

\* denied with the store's ttl, and denied with the window length in its place
C3_Witness ==
  /\ \E t \in Threads :
       /\ Finished(t) /\ hist[t].inSeq /\ hist[t].rank = limit + 1 /\ OpsOK(t)
       /\ LastOp(t).ret = 1 /\ result[t].retry_after = 1 /\ window > 1

C3_WitnessFallback ==
  \E t \in Threads :
    /\ Finished(t) /\ hist[t].inSeq /\ hist[t].rank = limit + 1 /\ OpsOK(t)
    /\ LastOp(t).ret <= 0 /\ result[t].retry_after = window

\* C4: a call one of whose store operations failed returns allowed with no
\* quota fields; a call returns a denial only after an increment that
\* returned more than limit and a ttl read that succeeded.
C4_FailOpenOnError ==
  \A t \in Threads : Finished(t) =>
    /\ SomeFailed(t, StoreOps) => result[t] = AllowNoQuota
    /\ ~result[t].allowed =>
         /\ ~SomeFailed(t, StoreOps)
         /\ \E i \in 1..Len(ops[t]) : ops[t][i].op = "incr" /\ ops[t][i].ret > limit
         /\ LastOp(t).op = "ttl"

\* the ttl read of a call over the limit failed, and the call was allowed
C4_Witness ==
  \E t \in Threads :
    /\ Finished(t) /\ current[t] > limit
    /\ LastOp(t).op = "ttl" /\ ~LastOp(t).ok
    /\ result[t] = AllowNoQuota

\* C5: a call whose connection attempt or liveness probe failed returns
\* allowed with no quota fields and performs no store operation; and whatever
\* a call returns while the store is unreachable is allowed with no quota
\* fields.
C5_FailOpenUnavailable ==
  /\ [](\A t \in Threads :
          (Finished(t) /\ SomeFailed(t, ConnectOps)) =>
            (result[t] = AllowNoQuota /\ StoreOpsOf(t) = <<>>))
  /\ [][~storeUp => \A t \in Threads : result'[t] \in {result[t], NoResult, AllowNoQuota}]_vars

\* two calls returned while the store was never reached: one after its probe
\* failed, one through the handle the other had cached before probing it
C5_Witness ==
  /\ ~storeUp /\ \A h \in 1..MaxCalls : ~probed[h]
  /\ \E t \in Threads, u \in Threads :
       /\ Finished(t) /\ result[t] = AllowNoQuota
       /\ LastOp(t).op = "ping" /\ ~LastOp(t).ok
       /\ Finished(u) /\ result[u] = AllowNoQuota
       /\ OpNames(u) = <<"incr">> /\ ~LastOp(u).ok

\* C6, as the specification states it: every call that starts after a failed
\* connection attempt returns allowed with no quota fields, whether or not
\* the store has become reachable.
C6_Latched ==
  \A t \in Threads :
    (Finished(t) /\ hist[t].afterFail) => result[t] = AllowNoQuota

\* C6, amended: a failed attempt leaves no handle and no failure marker
\* behind. Outside get_redis_client the global is unset or holds a handle
\* whose probe succeeded; a later call of the enabled limiter that finds no
\* handle at line 30 attempts the connection again; and it returns allowed
\* with no quota fields only if one of its own operations failed or its
\* get_redis_client returned None.
C6_RetryAfterFailure ==
  /\ (\A t \in Threads : pc[t] \notin {"L36", "L38", "L41"}) =>
       (client = NoClient \/ probed[client])
  /\ \A t \in Threads :
       (Finished(t) /\ hist[t].afterFail /\ enabled) =>
         /\ ~hist[t].cached => (ops[t] # <<>> /\ ops[t][1].op = "from_url")
         /\ result[t] = AllowNoQuota => (~OpsOK(t) \/ cl[t] = NoClient)
         /\ (OpsOK(t) /\ cl[t] # NoClient) => result[t].remaining # None

\* a call that started after a failed attempt connected and was counted
C6_Witness ==
  \E t \in Threads :
    /\ Finished(t) /\ hist[t].afterFail
    /\ OpNames(t) = <<"from_url", "ping", "incr", "expire">>
    /\ OpsOK(t)
    /\ result[t] = [allowed |-> TRUE, retry_after |-> None, remaining |-> limit - 1]

\* C7, as the specification states it, for the calls furthest from any race:
\* a call whose increment runs more than window seconds after the call that
\* made the first increment of the record has returned (so more than window
\* seconds after that increment) behaves as the first call of a fresh window.
C7_Rollover ==
  \A t \in Threads :
    (Finished(t) /\ OpsOK(t) /\ hist[t].stale) =>
      /\ current[t] = 1
      /\ result[t] = [allowed |-> TRUE, retry_after |-> None, remaining |-> limit - 1]

\* C8: with rate limiting disabled no call contacts the store, opens a
\* connection or touches a counter, and every call returns allowed with no
\* quota fields.
C8_DisabledNoContact ==
  ~enabled =>
    /\ client = NoClient /\ handles = 0
    /\ \A key \in Keys : value[key] = 0 /\ ttl[key] = NoKeyTtl
    /\ \A t \in Threads :
         /\ pc[t] = "idle" /\ ops[t] = <<>> /\ cl[t] = NoClient
         /\ result[t] \in {NoResult, AllowNoQuota}

C8_Witness ==
  /\ ~enabled /\ storeUp /\ calls = MaxCalls
  /\ \A t \in Threads : result[t] = AllowNoQuota

\* C9: an established handle (the global holds a handle whose probe
\* succeeded) is never replaced or cleared.
C9_HandleWrittenOnce ==
  [][(client # NoClient /\ probed[client]) => client' = client]_vars

\* C10, as the specification states it: the call whose increment returned 1
\* and whose set-expiry failed returns what it would have returned had the
\* expiry succeeded.
C10_ExpiryFailureEvaluated ==
  \A t \in Threads :
    (Finished(t) /\ current[t] = 1 /\ LastOp(t).op = "expire" /\ ~LastOp(t).ok) =>
      result[t] = [allowed |-> TRUE, retry_after |-> None, remaining |-> limit - 1]

\* C10, amended: that call is allowed with no retry_after, as it would have
\* been, but remaining is absent; the request stays counted.
C10_ExpiryFailureFailsOpen ==
  \A t \in Threads :
    (Finished(t) /\ current[t] = 1 /\ LastOp(t).op = "expire" /\ ~LastOp(t).ok) =>
      /\ result[t] = [allowed |-> TRUE, retry_after |-> None, remaining |-> None]
      /\ value[Key(ident[t])] >= 1

C10_Witness ==
  \E t \in Threads :
    /\ Finished(t) /\ current[t] = 1
    /\ OpNames(t) = <<"from_url", "ping", "incr", "expire">>
    /\ ~LastOp(t).ok
    /\ result[t] = AllowNoQuota /\ value[Key(ident[t])] = 1 /\ ttl[Key(ident[t])] = NoExpiryTtl

\* C11: in every result a call returns, retry_after is present exactly when
\* the call is denied; a denial has remaining 0; an allowed call has no
\* remaining or one in 0..limit-1.
C11_ResultShape ==
  \A t \in Threads : Finished(t) =>
    /\ (result[t].retry_after # None) <=> ~result[t].allowed
    /\ ~result[t].allowed => result[t].remaining = 0
    /\ result[t].allowed =>
         \/ result[t].remaining = None
         \/ result[t].remaining \in 0..(limit - 1)

\* a denial beside an allowed call that used up the last admission
C11_Witness ==
  \E t \in Threads, u \in Threads :
    /\ Finished(t) /\ ~result[t].allowed /\ result[t].retry_after \in 1..window
    /\ Finished(u) /\ result[u].allowed /\ result[u].remaining = 0

\* C12: every denial carries a retry_after in 1..window, whatever the ttl
\* read returned.
C12_RetryAfterRange ==
  \A t \in Threads :
    (Finished(t) /\ ~result[t].allowed) =>
      /\ result[t].retry_after \in 1..window
      /\ LastOp(t).op = "ttl" /\ LastOp(t).ret \in {NoKeyTtl, NoExpiryTtl} \cup (0..window)

\* the key expired between the increment and the ttl read of a denied call
C12_Witness ==
  \E t \in Threads :
    /\ Finished(t) /\ ~result[t].allowed
    /\ LastOp(t).ret = NoKeyTtl /\ result[t].retry_after = window

\* the key of a denied call carries no time-to-live
C12_WitnessNoTtl ==
  \E t \in Threads :
    /\ Finished(t) /\ ~result[t].allowed
    /\ LastOp(t).ret = NoExpiryTtl /\ result[t].retry_after = window

\* C13, its last sentence: a record with value >= 1 whose creating call is
\* past its set-expiry step (no call on the identifier is between the
\* increment and line 76) has a time-to-live.
C13_CreatedRecordHasTtl ==
  \A id \in Ids :
    (value[Key(id)] >= 1 /\ ~\E t \in Threads : pc[t] = "L76" /\ ident[t] = id) =>
      ttl[Key(id)] # NoExpiryTtl

\* C14: once the set-expiry step of a record that has denied a call lies more
\* than window seconds back, the rejection is over: a call made now would be
\* allowed.
C14_RejectionEnds ==
  \A id \in Ids :
    (win[id].denied > 0 /\ Stale(id)) => ~OverLimit(IncrValue(value[Key(id)]), limit)

\* C15: a call that holds a handle from get_redis_client holds one whose
\* liveness probe has completed successfully.
C15_HandleProbed ==
  \A t \in Threads : cl[t] # NoClient => probed[cl[t]]

\* C16: a step of a call for identifier A changes the value or the ttl of
\* the record of A only (the records change otherwise only when time
\* passes), and the value of each record is the number of increments the
\* calls for its own identifier made on it, so what a call for B is told
\* depends on the calls for B alone.
C16_Isolation ==
  /\ [](\A id \in Ids : value[Key(id)] = Len(win[id].incrLog))
  /\ [][\A id \in Ids :
          (value'[Key(id)] # value[Key(id)] \/ ttl'[Key(id)] # ttl[Key(id)]) =>
            \/ UNCHANGED <<process, ops>>
            \/ \E t \in Threads :
                 /\ ident[t] = id /\ pc[t] \in {"L72", "L76"} /\ pc'[t] # pc[t]
                 /\ \A other \in Ids \ {id} :
                      /\ value'[Key(other)] = value[Key(other)]
                      /\ ttl'[Key(other)] = ttl[Key(other)]]_vars

\* identifier a is over its limit and has been denied while a call for b has
\* just been allowed as the first call of its own record
C16_Witness ==
  \E t \in Threads, u \in Threads :
    /\ ident[t] = "a" /\ Finished(t) /\ ~result[t].allowed
    /\ ident[u] = "b" /\ Finished(u) /\ OpsOK(u) /\ current[u] = 1
    /\ result[u] = [allowed |-> TRUE, retry_after |-> None, remaining |-> limit - 1]
    /\ value[Key("a")] > limit /\ value[Key("b")] = 1

\* the names of the store operations of the call of t, in the order issued
StoreOpNames(t) == [i \in 1..Len(StoreOpsOf(t)) |-> StoreOpsOf(t)[i].op]

\* C17: the store operations of a call are one increment, then at most one
\* expire, issued only when the increment returned 1, then at most one ttl
\* read, issued only when the increment returned more than limit; nothing
\* follows a failed operation and a call that got a handle and has returned
\* made its increment.
C17_StoreOpsPerCall ==
  \A t \in Threads :
    LET so == StoreOpsOf(t)
        names == StoreOpNames(t)
    IN /\ names \in {<<>>, <<"incr">>, <<"incr", "expire">>, <<"incr", "ttl">>,
                     <<"incr", "expire", "ttl">>}
       /\ \A i \in 1..Len(so) : ~so[i].ok => i = Len(so)
       /\ (\E i \in 1..Len(so) : so[i].op = "expire") => so[1].ok /\ so[1].ret = 1
       /\ (\E i \in 1..Len(so) : so[i].op = "ttl") => so[1].ok /\ so[1].ret > limit
       /\ (Finished(t) /\ cl[t] # NoClient) => Len(so) >= 1
       /\ (so # <<>>) => cl[t] # NoClient

\* one call made the first increment and set the expiry, another one was
\* over the limit and read the ttl
C17_Witness ==
  \E t \in Threads, u \in Threads :
    /\ Finished(t) /\ OpsOK(t) /\ StoreOpNames(t) = <<"incr", "expire">>
    /\ Finished(u) /\ OpsOK(u) /\ StoreOpNames(u) = <<"incr", "ttl">>

\* the calls on identifier id that have incremented its live record and have
\* not returned yet
Counted(id) ==
  {t \in Threads : pc[t] \in {"L76", "L80"} /\ ident[t] = id /\ hist[t].inWin}

\* C18, as the specification states it, at the moments when no call on the
\* identifier is between its increment and its return: the value of a live
\* record is the number of calls that were allowed on it.
C18_ValueIsAllowedCalls ==
  \A id \in Ids :
    (value[Key(id)] > 0 /\ Counted(id) = {}) => value[Key(id)] = win[id].admitted

\* C18 amended: the value of a live record is the number of calls that have
\* incremented it: those that returned allowed, those that were denied and
\* those that have not returned yet.
C18_ValueIsCountedCalls ==
  \A id \in Ids :
    /\ value[Key(id)] >= 0
    /\ value[Key(id)] = win[id].admitted + win[id].denied + Cardinality(Counted(id))

\* a live record has counted an allowed call, a denied call and a call that
\* is still over its ttl read
C18_Witness ==
  \E id \in Ids :
    /\ win[id].admitted > 0 /\ win[id].denied > 0 /\ Counted(id) # {}
    /\ value[Key(id)] = 3

RECURSIVE SumSeq(_)
SumSeq(q) == IF q = <<>> THEN 0 ELSE Head(q) + SumSeq(Tail(q))

\* the allowed calls on identifier id in the last window + 1 seconds of the
\* store's clock, which cover every time span of window seconds that ends now
AllowedInSpan(id) == SumSeq(span.allowed[id])

====
